---- MODULE Spec2Model ----
(***************************************************************************)
(* A model of src/app.py: the nonprofit enrichment pipeline.               *)
(*                                                                         *)
(* Strings are sequences of characters.  Organization names are sequences  *)
(* of one-character strings; identifiers (ein) and revenue amounts, which  *)
(* the registry loader reads with dtype=str, are sequences of character    *)
(* codes relative to "0" (a digit d is the code d, the letter "A" is 17)   *)
(* so that Python's code-point string order is the lexicographic order of  *)
(* the codes.  A pandas missing value (NaN / None) is Null.                *)
(*                                                                         *)
(* A DataFrame is [cols |-> sequence of column names, rows |-> sequence of *)
(* rows].  The registry attributes ntee_cd, income_amt and asset_amt are   *)
(* carried through every step exactly like revenue_amt, and are           *)
(* represented by it.                                                      *)
(***************************************************************************)
EXTENDS Integers, Sequences, FiniteSets, TLC

\* ------------------------------------------------------------- bounds
MaxBmf == 2
MaxUpload == 2
MaxDedup == 3

\* ------------------------------------------------------------ strings
Null == <<-1>>
IsNa(x) == x = Null
PyNone == "None"

LowerChar(c) == CASE c = "A" -> "a" [] c = "B" -> "b" [] c = "C" -> "c" [] OTHER -> c

StrLower(s) == [i \in 1..Len(s) |-> LowerChar(s[i])]

RECURSIVE LStrip(_)
LStrip(s) == IF s # <<>> /\ Head(s) = " " THEN LStrip(Tail(s)) ELSE s

RECURSIVE RStrip(_)
RStrip(s) == IF s # <<>> /\ s[Len(s)] = " " THEN RStrip(SubSeq(s, 1, Len(s) - 1)) ELSE s

StrStrip(s) == RStrip(LStrip(s))

\* .str.lower().str.strip()
Normalize(s) == StrStrip(StrLower(s))

\* Python's str < str: lexicographic on code points
RECURSIVE LexLess(_, _)
LexLess(s, t) ==
    IF t = <<>> THEN FALSE
    ELSE IF s = <<>> THEN TRUE
    ELSE IF Head(s) # Head(t) THEN Head(s) < Head(t)
    ELSE LexLess(Tail(s), Tail(t))

\* ------------------------------------------------------ sequence helpers
RECURSIVE Flatten(_)
Flatten(ss) == IF ss = <<>> THEN <<>> ELSE Head(ss) \o Flatten(Tail(ss))

Range(s) == {s[i] : i \in 1..Len(s)}

\* Series.unique(): the values in order of first appearance
Unique(s) == SelectSeq([i \in 1..Len(s) |-> [v |-> s[i], first |-> \A j \in 1..(i - 1) : s[j] # s[i]]],
                       LAMBDA e : e.first)

UniqueValues(s) == [i \in 1..Len(Unique(s)) |-> Unique(s)[i].v]

\* Series.dropna()
DropNa(s) == SelectSeq(s, LAMBDA x : ~IsNa(x))

SeqsUpTo(S, n) == UNION {[1..k -> S] : k \in 0..n}

\* ------------------------------------------------- fuzzywuzzy (library)
\* process.extractOne(query, choices): the first choice of maximal score, as
\* Python's max() returns it; None when there is no choice.  sc is the scorer,
\* a function of <<query, choice>>.
ExtractOne(query, choices, sc) ==
    IF choices = <<>> THEN PyNone
    ELSE LET i == CHOOSE i \in 1..Len(choices) :
                     /\ \A j \in 1..Len(choices) : sc[<<query, choices[j]>>] <= sc[<<query, choices[i]>>]
                     /\ \A j \in 1..(i - 1) : sc[<<query, choices[j]>>] < sc[<<query, choices[i]>>]
         IN [match |-> choices[i], score |-> sc[<<query, choices[i]>>]]

\* ------------------------------------------------------- Field Detector
Keywords == <<"company", "organization", "name", "nonprofit", "business", "entity">>

ColumnNames == {"ein", "name", "revenue_amt", "organization"}

\* The library's score of a keyword against a column name, for the column
\* names of the model: 100 on equal strings, below the threshold otherwise.
ColumnScore == [p \in Range(Keywords) \X ColumnNames |-> IF p[1] = p[2] THEN 100 ELSE 0]

ColumnThreshold == 60

\* find_best_column_match: None on an empty column list; else the best column
\* of the first keyword whose best score reaches 60; else the first column.
\* The column names reach it lower-cased and trimmed (lines 44 and 67).
find_best_column_match(columns) ==
    IF columns = <<>> THEN PyNone
    ELSE LET hits == {k \in 1..Len(Keywords) :
                          ExtractOne(Keywords[k], columns, ColumnScore).score >= ColumnThreshold}
         IN IF hits # {}
            THEN ExtractOne(Keywords[CHOOSE k \in hits : \A h \in hits : k <= h], columns, ColumnScore).match
            ELSE columns[1]

\* ------------------------------------------------------------ registry
BmfColumns == <<"ein", "name", "revenue_amt">>

EmptyFrame == [cols |-> <<>>, rows |-> <<>>]

\* load_bmf_data: an empty DataFrame (no columns) when there is no CSV file,
\* else the files' rows concatenated in order, every value a string or NaN.
load_bmf_data(files) ==
    IF files = <<>> THEN EmptyFrame
    ELSE [cols |-> BmfColumns, rows |-> Flatten(files)]

\* ------------------------------------------------------------- upload
UploadColumns == <<"organization">>

\* clean_uploaded_data: the name column detected and normalized
clean_uploaded_data(names) ==
    LET col == find_best_column_match(UploadColumns)
    IN [df |-> [cols |-> UploadColumns, rows |-> [i \in 1..Len(names) |-> [org |-> Normalize(names[i])]]],
        org_name_column |-> col]

\* ------------------------------------------------------- Exact Matcher
NoError == [exc |-> "", at |-> ""]

NormalizedBmf(bmf_df) ==
    [bmf_df EXCEPT !.rows = [i \in 1..Len(bmf_df.rows) |->
                                [bmf_df.rows[i] EXCEPT !.name = Normalize(bmf_df.rows[i].name)]]]

\* The rows of a left merge for one uploaded row: one per registry row of the
\* same name, in registry order; a single row of NaN when there is none.
MergeRowsFor(up, bmf_rows) ==
    LET hits == SelectSeq(bmf_rows, LAMBDA r : r.name = up.org)
    IN IF hits = <<>>
       THEN <<[org |-> up.org, ein |-> Null, revenue_amt |-> Null]>>
       ELSE [k \in 1..Len(hits) |-> [org |-> up.org, ein |-> hits[k].ein, revenue_amt |-> hits[k].revenue_amt]]

\* match_eins_exact: normalizes the registry's name column in place, then
\* uploaded_df.merge(..., how='left').  bmf_df[None] raises KeyError.
match_eins_exact(uploaded, org_col, bmf_df, bmf_col) ==
    IF bmf_col \notin Range(bmf_df.cols)
    THEN [err |-> [exc |-> "KeyError", at |-> "match_eins_exact"], bmf |-> bmf_df, df |-> EmptyFrame]
    ELSE LET nb == NormalizedBmf(bmf_df)
         IN [err |-> NoError,
             bmf |-> nb,
             df |-> [cols |-> uploaded.cols \o <<bmf_col, "ein", "revenue_amt">>,
                     rows |-> Flatten([i \in 1..Len(uploaded.rows) |-> MergeRowsFor(uploaded.rows[i], nb.rows)])]]

\* ------------------------------------------------ Fuzzy Fallback Matcher
\* mutant: a lower acceptance threshold
FuzzyThresholdLow == 85 - 1

FuzzyThreshold == 85

\* get_best_ein: the attributes of the first registry row carrying the best
\* name when its score reaches the threshold, else all None
get_best_ein(org_name, bmf_df, sc) ==
    LET best == ExtractOne(org_name, UniqueValues([i \in 1..Len(bmf_df.rows) |-> bmf_df.rows[i].name]), sc)
        hit == SelectSeq(bmf_df.rows, LAMBDA r : r.name = best.match)[1]
    IN IF best.score >= FuzzyThreshold
       THEN [ein |-> hit.ein, revenue_amt |-> hit.revenue_amt]
       ELSE [ein |-> Null, revenue_amt |-> Null]

\* fuzzy_match_unmatched: overwrites the attribute columns of the rows whose
\* ein is NaN.  With no such row Series.apply returns an empty Series, which
\* has no .columns (AttributeError); with no registry name extractOne has no
\* candidate and its result does not unpack (TypeError).
fuzzy_match_unmatched(df, bmf_df, sc) ==
    LET no_ein_mask == {i \in 1..Len(df.rows) : IsNa(df.rows[i].ein)}
    IN IF no_ein_mask = {}
       THEN [err |-> [exc |-> "AttributeError", at |-> "fuzzy_match_unmatched"], df |-> df]
       ELSE IF bmf_df.rows = <<>>
       THEN [err |-> [exc |-> "TypeError", at |-> "fuzzy_match_unmatched"], df |-> df]
       ELSE [err |-> NoError,
             df |-> [df EXCEPT !.rows = [i \in 1..Len(df.rows) |->
                        IF i \in no_ein_mask
                        THEN LET g == get_best_ein(df.rows[i].org, bmf_df, sc)
                             IN [df.rows[i] EXCEPT !.ein = g.ein, !.revenue_amt = g.revenue_amt]
                        ELSE df.rows[i]]]]

\* --------------------------------------------------- Enrichment Fetcher
Kinds == {"ok", "non200", "transport", "malformed"}

\* The dict built from a 200 response with a well-formed body.
EnrichmentRecord(ein) == [none |-> FALSE, EIN |-> ein, employees |-> "18000"]

\* A coroutine's return value None
NoRecord == [none |-> TRUE, EIN |-> Null, employees |-> ""]

\* mutant: the exception leaves the coroutine
OnExceptionPropagate == [state |-> "raised", value |-> NoRecord]

\* except: return None
OnException == [state |-> "done", value |-> NoRecord]

\* fetch_propublica_async up to its first suspension, session.get(url): a
\* transport error raises inside the try; a status other than 200 falls off
\* the if and returns None; a 200 goes on to await response.json().
fetch_on_response(kind) ==
    CASE kind = "transport" -> OnException
      [] kind = "non200" -> [state |-> "done", value |-> NoRecord]
      [] OTHER -> [state |-> "json", value |-> NoRecord]

\* ... and from response.json(): a malformed body raises inside the try
fetch_on_body(ein, kind) ==
    IF kind = "malformed" THEN OnException
    ELSE [state |-> "done", value |-> EnrichmentRecord(ein)]

\* mutant: the results in the order the requests completed
gather_in_arrival_order(slot, arrival) == [k \in 1..Len(arrival) |-> slot[arrival[k]]]

\* asyncio.gather: the results in the order of the awaitables
gather_results(slot, arrival) == slot

\* tasks = [... for ein in ein_list if ein]
TruthyEins(ein_list) == SelectSeq(ein_list, LAMBDA e : e # <<>>)

\* enriched_df["EIN"].dropna().unique().tolist()
eins_to_fetch(df) == UniqueValues(DropNa([i \in 1..Len(df.rows) |-> df.rows[i].ein]))

\* pd.DataFrame([row for row in propublica_results if row])
pro_rows(results) == SelectSeq(results, LAMBDA r : ~r.none)

\* enriched_df.merge(pro_df, on="EIN", how="left"), skipped when pro_df is empty
merge_propublica(df, results) ==
    IF pro_rows(results) = <<>> THEN df
    ELSE [cols |-> df.cols \o <<"Number of Employees">>,
          rows |-> [i \in 1..Len(df.rows) |->
                      LET hits == SelectSeq(pro_rows(results), LAMBDA r : r.EIN = df.rows[i].ein)
                      IN [org |-> df.rows[i].org, ein |-> df.rows[i].ein,
                          revenue_amt |-> df.rows[i].revenue_amt,
                          employees |-> IF hits = <<>> THEN "NaN" ELSE hits[1].employees]]]

\* ---------------------------------------------------------- Deduplicator
\* ascending, NaN last
EinBefore(a, b) == ~IsNa(a) /\ (IsNa(b) \/ LexLess(a, b))

\* descending, NaN last
RevenueBefore(a, b) == ~IsNa(a) /\ (IsNa(b) \/ LexLess(b, a))

RowBefore(x, y, by_revenue) ==
    \/ EinBefore(x.ein, y.ein)
    \/ x.ein = y.ein /\ by_revenue /\ RevenueBefore(x.revenue_amt, y.revenue_amt)

SortPermutations(n) == {p \in [1..n -> 1..n] : \A i, j \in 1..n : i # j => p[i] # p[j]}

\* df.sort_values(by=sort_cols, ascending=[True, False]): the orders it can
\* produce.  Two keys are sorted by a stable lexsort; a single key by
\* quicksort, which may reorder equal keys (NaN keys are appended in order).
sort_orders(rows, by_revenue) ==
    {p \in SortPermutations(Len(rows)) :
        \A i, j \in 1..Len(rows) : i < j =>
            /\ ~RowBefore(rows[p[j]], rows[p[i]], by_revenue)
            /\ (/\ ~RowBefore(rows[p[i]], rows[p[j]], by_revenue)
                /\ (by_revenue \/ IsNa(rows[p[i]].ein))) => p[i] < p[j]}

\* The value of a row in the column a pass compares: the identifier column or
\* the uploaded name column
KeyOf(r, col) == IF col = "ein" THEN r.ein ELSE r.org

\* drop_duplicates(subset=[col], keep="first"): NaN equals NaN
drop_duplicates(rows, col) ==
    LET m == SelectSeq([i \in 1..Len(rows) |->
                  [row |-> rows[i],
                   dup |-> \E j \in 1..(i - 1) : KeyOf(rows[j], col) = KeyOf(rows[i], col)]],
              LAMBDA e : ~e.dup)
    IN [i \in 1..Len(m) |-> m[i].row]

\* mutant: the pass over the name column left out
dedup_passes_ein_only(rows, org_col) == drop_duplicates(rows, "ein")

\* df.drop_duplicates(subset=["ein"]) then df.drop_duplicates(subset=[org_name_column])
dedup_passes(rows, org_col) == drop_duplicates(drop_duplicates(rows, "ein"), org_col)

\* deduplicate: every result it can return.  A missing "ein" column makes
\* sort_values raise (swallowed by the bare except) and then makes
\* drop_duplicates raise KeyError, which nothing catches.
deduplicate(df, org_col) ==
    IF "ein" \notin Range(df.cols) \/ org_col \notin Range(df.cols)
    THEN {[err |-> [exc |-> "KeyError", at |-> "deduplicate"], df |-> df]}
    ELSE {[err |-> NoError,
           df |-> [df EXCEPT !.rows = dedup_passes([i \in 1..Len(df.rows) |-> df.rows[p[i]]], org_col)]] :
             p \in sort_orders(df.rows, "revenue_amt" \in Range(df.cols))}

\* ---------------------------------------------------------------- state
VARIABLES
    pc,                 \* position of the script run
    csv_files,          \* the registry files on disk: a sequence of files, each a sequence of rows
    upload,             \* the names of the uploaded CSV, as typed
    score,              \* the library's similarity score of <<uploaded name, registry name>>
    bmf_data,           \* load_bmf_data()'s (cached) DataFrame
    bmf_name_col,
    uploaded_df,
    org_name_column,
    exact_df,           \* what match_eins_exact returned
    enriched_df,
    ein_list,           \* eins_to_fetch
    response,           \* what the remote service answers to each request
    task,               \* each coroutine's position: "get", "json", "done", "raised"
    slot,               \* each coroutine's return value
    arrival,            \* the requests in the order they completed
    propublica_results,
    dedup_in,           \* the table handed to deduplicate
    error               \* the uncaught exception that ended the run

vars == <<pc, csv_files, upload, score, bmf_data, bmf_name_col, uploaded_df, org_name_column,
          exact_df, enriched_df, ein_list, response, task, slot, arrival, propublica_results,
          dedup_in, error>>

\* ---------------------------------------------------------------- inputs
\* Registry rows: two spellings of one name with different identifiers and
\* revenues, one identifier under two names, and a row without identifier.
BmfRows ==
    {[name |-> <<"A">>, ein |-> <<1>>, revenue_amt |-> <<9>>],
     [name |-> <<"a", " ">>, ein |-> <<2>>, revenue_amt |-> <<1, 0>>],
     [name |-> <<"a", " ">>, ein |-> <<1>>, revenue_amt |-> <<1, 0>>],
     [name |-> <<"b">>, ein |-> <<2>>, revenue_amt |-> <<9>>],
     [name |-> <<"B">>, ein |-> Null, revenue_amt |-> <<1, 0>>]}

BmfRawNames == {r.name : r \in BmfRows}

UploadNames == {<<"a">>, <<" ", "B">>, <<"c">>}

RegistryNames == {Normalize(n) : n \in BmfRawNames}

QueryNames == {Normalize(n) : n \in UploadNames}

ScoreValues == {84, 85}

\* The scorer gives 100 to equal names (names holding a letter or a digit,
\* as the names of the model do) and is symmetric.
ScoreTables ==
    {sc \in [QueryNames \X RegistryNames -> ScoreValues \cup {100}] :
        \A q \in QueryNames, r \in RegistryNames :
            /\ (sc[<<q, r>>] = 100) = (q = r)
            /\ (q \in RegistryNames /\ r \in QueryNames) => sc[<<q, r>>] = sc[<<r, q>>]}

Blank ==
    /\ bmf_data = EmptyFrame
    /\ bmf_name_col = PyNone
    /\ uploaded_df = EmptyFrame
    /\ exact_df = EmptyFrame
    /\ ein_list = <<>>
    /\ response = <<>>
    /\ task = <<>>
    /\ slot = <<>>
    /\ arrival = <<>>
    /\ propublica_results = <<>>
    /\ dedup_in = EmptyFrame
    /\ error = NoError

Init ==
    /\ pc = "start"
    /\ csv_files \in {<<>>} \cup {<<rows>> : rows \in SeqsUpTo(BmfRows, MaxBmf)}
    /\ upload \in SeqsUpTo(UploadNames, MaxUpload)
    /\ score \in ScoreTables
    /\ org_name_column = PyNone
    /\ enriched_df = EmptyFrame
    /\ Blank

\* --------------------------------------------------------------- actions
\* Step 1 of the script: the registry is loaded and its name column detected.
\* Nothing stops the script when the registry is empty.
LoadBmf ==
    /\ pc = "start"
    /\ bmf_data' = load_bmf_data(csv_files)
    /\ bmf_name_col' = find_best_column_match(load_bmf_data(csv_files).cols)
    /\ pc' = "loaded"
    /\ UNCHANGED <<csv_files, upload, score, uploaded_df, org_name_column, exact_df, enriched_df,
                   ein_list, response, task, slot, arrival, propublica_results, dedup_in, error>>

\* Step 2: a file is uploaded and cleaned.
UploadFile ==
    /\ pc = "loaded"
    /\ uploaded_df' = clean_uploaded_data(upload).df
    /\ org_name_column' = clean_uploaded_data(upload).org_name_column
    /\ pc' = "uploaded"
    /\ UNCHANGED <<csv_files, upload, score, bmf_data, bmf_name_col, exact_df, enriched_df,
                   ein_list, response, task, slot, arrival, propublica_results, dedup_in, error>>

\* "Enrich Now", step 1: exact matching.
MatchExact ==
    /\ pc = "uploaded"
    /\ LET m == match_eins_exact(uploaded_df, org_name_column, bmf_data, bmf_name_col)
       IN /\ bmf_data' = m.bmf
          /\ exact_df' = m.df
          /\ enriched_df' = m.df
          /\ error' = m.err
          /\ pc' = IF m.err = NoError THEN "exact_done" ELSE "error"
    /\ UNCHANGED <<csv_files, upload, score, bmf_name_col, uploaded_df, org_name_column,
                   ein_list, response, task, slot, arrival, propublica_results, dedup_in>>

\* "Enrich Now", step 2: the fuzzy fallback.
MatchFuzzy ==
    /\ pc = "exact_done"
    /\ LET f == fuzzy_match_unmatched(enriched_df, bmf_data, score)
       IN /\ enriched_df' = f.df
          /\ error' = f.err
          /\ pc' = IF f.err = NoError THEN "fuzzy_done" ELSE "error"
    /\ UNCHANGED <<csv_files, upload, score, bmf_data, bmf_name_col, uploaded_df, org_name_column,
                   exact_df, ein_list, response, task, slot, arrival, propublica_results, dedup_in>>

\* enriched_df.rename(columns={"ein": "EIN"}, inplace=True)
rename_ein(df) == [df EXCEPT !.cols = [i \in 1..Len(df.cols) |-> IF df.cols[i] = "ein" THEN "EIN" ELSE df.cols[i]]]

\* "Enrich Now", step 3: the identifier column is renamed, the distinct
\* identifiers collected and one request per identifier issued.  The remote
\* service's answer to each request is fixed here.
StartFetch ==
    /\ pc = "fuzzy_done"
    /\ enriched_df' = rename_ein(enriched_df)
    /\ ein_list' = eins_to_fetch(enriched_df)
    /\ \E r \in [1..Len(TruthyEins(eins_to_fetch(enriched_df))) -> Kinds] : response' = r
    /\ task' = [i \in 1..Len(TruthyEins(eins_to_fetch(enriched_df))) |-> "get"]
    /\ slot' = [i \in 1..Len(TruthyEins(eins_to_fetch(enriched_df))) |-> NoRecord]
    /\ arrival' = <<>>
    /\ pc' = "fetching"
    /\ UNCHANGED <<csv_files, upload, score, bmf_data, bmf_name_col, uploaded_df, org_name_column,
                   exact_df, propublica_results, dedup_in, error>>

\* A coroutine resumes with `o`.  An exception that leaves a coroutine leaves
\* asyncio.gather and asyncio.run at once.
Resume(i, o) ==
    /\ task' = [task EXCEPT ![i] = o.state]
    /\ slot' = [slot EXCEPT ![i] = o.value]
    /\ arrival' = IF o.state = "done" THEN Append(arrival, i) ELSE arrival
    /\ pc' = IF o.state = "raised" THEN "error" ELSE pc
    /\ error' = IF o.state = "raised" THEN [exc |-> "Exception", at |-> "fetch_all_propublica"] ELSE error
    /\ UNCHANGED <<csv_files, upload, score, bmf_data, bmf_name_col, uploaded_df, org_name_column,
                   exact_df, enriched_df, ein_list, response, propublica_results, dedup_in>>

\* The answer to request i arrives (or the transport fails).
ResponseArrives(i) ==
    /\ pc = "fetching"
    /\ task[i] = "get"
    /\ Resume(i, fetch_on_response(response[i]))

\* The body of answer i has been read.
BodyArrives(i) ==
    /\ pc = "fetching"
    /\ task[i] = "json"
    /\ Resume(i, fetch_on_body(TruthyEins(ein_list)[i], response[i]))

\* await asyncio.gather(*tasks) returns when every coroutine has returned
gather_ready(t) == \A i \in 1..Len(t) : t[i] = "done"

\* asyncio.run(fetch_all_propublica(eins_to_fetch)) returns.
Gather ==
    /\ pc = "fetching"
    /\ gather_ready(task)
    /\ propublica_results' = gather_results(slot, arrival)
    /\ pc' = "fetched"
    /\ UNCHANGED <<csv_files, upload, score, bmf_data, bmf_name_col, uploaded_df, org_name_column,
                   exact_df, enriched_df, ein_list, response, task, slot, arrival, dedup_in, error>>

\* The enrichment records are merged into the dataset.
Merge ==
    /\ pc = "fetched"
    /\ enriched_df' = merge_propublica(enriched_df, propublica_results)
    /\ pc' = "merged"
    /\ UNCHANGED <<csv_files, upload, score, bmf_data, bmf_name_col, uploaded_df, org_name_column,
                   exact_df, ein_list, response, task, slot, arrival, propublica_results, dedup_in, error>>

\* deduplicate(enriched_df, org_name_column), then the final dataset is shown
\* and offered for download.
Deduplicate ==
    /\ pc = "merged"
    /\ dedup_in' = enriched_df
    /\ \E r \in deduplicate(enriched_df, org_name_column) :
          /\ enriched_df' = r.df
          /\ error' = r.err
          /\ pc' = IF r.err = NoError THEN "done" ELSE "error"
    /\ UNCHANGED <<csv_files, upload, score, bmf_data, bmf_name_col, uploaded_df, org_name_column,
                   exact_df, ein_list, response, task, slot, arrival, propublica_results>>

Next ==
    \/ LoadBmf
    \/ UploadFile
    \/ MatchExact
    \/ MatchFuzzy
    \/ StartFetch
    \/ \E i \in 1..Len(task) : ResponseArrives(i)
    \/ \E i \in 1..Len(task) : BodyArrives(i)
    \/ Gather
    \/ Merge
    \/ Deduplicate

Spec == Init /\ [][Next]_vars

\* ------------------------------------------- deduplicate, called directly
\* The name column reaches deduplicate normalized by clean_uploaded_data.
DedupNames == {Normalize(n) : n \in {<<"A">>, <<" ", "b">>}}

DedupEins == {<<9>>, <<1, 0>>, Null}

DedupRevenues == {<<9>>, <<1, 0>>, Null}

DedupRows == [org : DedupNames, ein : DedupEins, revenue_amt : DedupRevenues]

\* The tables: with the identifier column as the matchers leave it, without a
\* revenue column, and with the identifier column renamed as the pipeline
\* hands it over.
DedupColumns ==
    {<<"organization", "ein", "revenue_amt">>,
     <<"organization", "ein">>,
     <<"organization", "EIN", "revenue_amt">>}

InitDedup ==
    /\ pc = "merged"
    /\ csv_files = <<>>
    /\ upload = <<>>
    /\ score = <<>>
    /\ org_name_column = "organization"
    /\ enriched_df \in [cols : DedupColumns, rows : SeqsUpTo(DedupRows, MaxDedup)]
    /\ Blank

NextDedup == Deduplicate

SpecDedup == InitDedup /\ [][NextDedup]_vars

\* ================================================================ claims
RECURSIVE StrToInt(_)
StrToInt(s) == IF s = <<>> THEN 0 ELSE StrToInt(SubSeq(s, 1, Len(s) - 1)) * 10 + s[Len(s)]

\* A revenue as a number; an unknown revenue ranks below every number.
NumericRevenue(s) == IF IsNa(s) THEN -1 ELSE StrToInt(s)

MatchingSteps == {"match_eins_exact", "fuzzy_match_unmatched"}

\* C1: once matching has completed, no later step (rename, fetch, merge,
\* deduplicate) ends the run in an error state: an uncaught exception can
\* only come from the matching steps.
C1_NoErrorAfterMatching == pc = "error" => error.at \in MatchingSteps

\* C9: with an empty registry (hence an empty column list given to the Field
\* Detector) the run is stopped before matching: match_eins_exact is never
\* entered.
C9_FatalStopsBeforeMatching ==
    (pc # "start" /\ bmf_data.cols = <<>>) => error.at # "match_eins_exact"

\* The registry rows, in ingestion order, whose normalized name is `org`
CandidatesFor(org) ==
    SelectSeq(Flatten(csv_files), LAMBDA r : Normalize(r.name) = org)

\* The candidate of numerically largest revenue, the earliest among equals
BestCandidate(c) ==
    c[CHOOSE k \in 1..Len(c) :
        /\ \A j \in 1..Len(c) : NumericRevenue(c[j].revenue_amt) <= NumericRevenue(c[k].revenue_amt)
        /\ \A j \in 1..(k - 1) : NumericRevenue(c[j].revenue_amt) < NumericRevenue(c[k].revenue_amt)]

\* C4: match_eins_exact returns exactly one row per uploaded record, carrying
\* the attributes of the registry record of that normalized name with the
\* numerically largest revenue (earliest among equals), and a null
\* identifier when no registry record has that name.
C4_OneRowPerUploadedRecord ==
    pc = "exact_done" =>
        /\ Len(exact_df.rows) = Len(uploaded_df.rows)
        /\ \A i \in 1..Len(uploaded_df.rows) :
              LET org == uploaded_df.rows[i].org
                  c == CandidatesFor(org)
              IN /\ exact_df.rows[i].org = org
                 /\ IF c = <<>>
                    THEN IsNa(exact_df.rows[i].ein)
                    ELSE /\ exact_df.rows[i].ein = BestCandidate(c).ein
                         /\ exact_df.rows[i].revenue_amt = BestCandidate(c).revenue_amt

\* The registry names the fuzzy step scores against
FuzzyChoices == {bmf_data.rows[k].name : k \in 1..Len(bmf_data.rows)}

MaxScore(org) ==
    CHOOSE m \in {score[<<org, n>>] : n \in FuzzyChoices} :
        \A n \in FuzzyChoices : score[<<org, n>>] <= m

\* The first registry row of name n
FirstNamed(n) == bmf_data.rows[CHOOSE k \in 1..Len(bmf_data.rows) :
                                  /\ bmf_data.rows[k].name = n
                                  /\ \A j \in 1..(k - 1) : bmf_data.rows[j].name # n]

\* C5: fuzzy_match_unmatched leaves every row with an identifier as exact
\* matching left it; a row without identifier gets the identifier and
\* attributes of a registry name of maximal score if that score is at least
\* 85, and otherwise has no identifier and no attributes.  No row gets an
\* identifier from a score below 85.  A run the step ends with an exception
\* has changed nothing.
C5_FuzzyOnlyUnmatchedAboveThreshold ==
    /\ (pc = "error" /\ error.at = "fuzzy_match_unmatched") => enriched_df = exact_df
    /\ pc = "fuzzy_done" =>
        /\ Len(enriched_df.rows) = Len(exact_df.rows)
        /\ \A i \in 1..Len(exact_df.rows) :
              LET before == exact_df.rows[i]
                  after == enriched_df.rows[i]
              IN /\ after.org = before.org
                 /\ ~IsNa(before.ein) => after = before
                 /\ IsNa(before.ein) =>
                       /\ MaxScore(before.org) >= 85 =>
                             \E n \in FuzzyChoices :
                                 /\ score[<<before.org, n>>] = MaxScore(before.org)
                                 /\ after.ein = FirstNamed(n).ein
                                 /\ after.revenue_amt = FirstNamed(n).revenue_amt
                       /\ MaxScore(before.org) < 85 => (IsNa(after.ein) /\ IsNa(after.revenue_amt))
                       /\ ~IsNa(after.ein) => MaxScore(before.org) >= 85

\* One run resolves a row by the fuzzy step and leaves an exactly matched row alone.
C5_Witness ==
    /\ pc = "fuzzy_done"
    /\ \E i, j \in 1..Len(exact_df.rows) :
          /\ IsNa(exact_df.rows[i].ein) /\ ~IsNa(enriched_df.rows[i].ein)
          /\ ~IsNa(exact_df.rows[j].ein)
    /\ \E i \in 1..Len(exact_df.rows) : IsNa(enriched_df.rows[i].ein)

\* What request i alone determines: the record of its identifier on a 200
\* with a well-formed body, None on anything else
ExpectedSlot(i) ==
    IF response[i] = "ok"
    THEN [none |-> FALSE, EIN |-> TruthyEins(ein_list)[i], employees |-> "18000"]
    ELSE NoRecord

\* C3: no outcome of any request makes the batch fail; a request that has
\* completed has produced the record of its own identifier if it succeeded
\* and None if it failed, whatever the other requests did; and the returned
\* batch holds the record of every identifier whose request succeeded and no
\* record of an identifier whose request failed.
C3_FailuresAreIsolated ==
    /\ error.at # "fetch_all_propublica"
    /\ pc = "fetching" => \A i \in 1..Len(task) : task[i] = "done" => slot[i] = ExpectedSlot(i)
    /\ pc = "fetched" =>
          /\ Len(propublica_results) = Len(TruthyEins(ein_list))
          /\ \A i \in 1..Len(response) :
                IF response[i] = "ok"
                THEN \E k \in 1..Len(propublica_results) : propublica_results[k] = ExpectedSlot(i)
                ELSE \A k \in 1..Len(propublica_results) :
                        \/ propublica_results[k].none
                        \/ propublica_results[k].EIN # TruthyEins(ein_list)[i]

\* A batch has returned in which one request succeeded and another failed.
C3_Witness ==
    /\ pc = "fetched"
    /\ \E i, j \in 1..Len(response) : response[i] = "ok" /\ response[j] \in {"transport", "malformed"}

\* The request issued for identifier e
RequestOf(e) == CHOOSE i \in 1..Len(TruthyEins(ein_list)) : TruthyEins(ein_list)[i] = e

\* C8: the batch returns only when every request has completed, and its
\* result is the list of the requests' results in request order, the same
\* for every order in which the answers arrived; so is the dataset after the
\* merge: a row carries enrichment fields exactly when some request
\* succeeded, filled exactly when the request of its own identifier did.
C8_ResultIndependentOfArrival ==
    /\ pc = "fetched" =>
          /\ \A i \in 1..Len(task) : task[i] = "done"
          /\ Len(arrival) = Len(task)
          /\ propublica_results = [i \in 1..Len(task) |-> ExpectedSlot(i)]
    /\ pc = "merged" =>
          IF \E i \in 1..Len(response) : response[i] = "ok"
          THEN \A k \in 1..Len(enriched_df.rows) :
                  enriched_df.rows[k].employees =
                      IF /\ ~IsNa(enriched_df.rows[k].ein)
                         /\ response[RequestOf(enriched_df.rows[k].ein)] = "ok"
                      THEN "18000" ELSE "NaN"
          ELSE "Number of Employees" \notin Range(enriched_df.cols)

\* A batch has returned whose second request completed before its first,
\* the two with different results.
C8_Witness ==
    /\ pc = "fetched"
    /\ arrival = <<2, 1>>
    /\ propublica_results[1] # propublica_results[2]

\* C2: the output of deduplicate holds no two records with the same
\* non-null identifier and no two with the same normalized name.
C2_NoDuplicatesInOutput ==
    pc = "done" =>
        \A i, j \in 1..Len(enriched_df.rows) : i # j =>
            /\ ~(~IsNa(enriched_df.rows[i].ein) /\ enriched_df.rows[i].ein = enriched_df.rows[j].ein)
            /\ Normalize(enriched_df.rows[i].org) # Normalize(enriched_df.rows[j].org)

\* deduplicate has removed a record and returned two.
C2_Witness ==
    /\ pc = "done"
    /\ Len(enriched_df.rows) = 2
    /\ Len(dedup_in.rows) > 2

\* The input rows of identifier e, in input order
GroupOf(e) == SelectSeq(dedup_in.rows, LAMBDA r : r.ein = e)

\* C6: of the records sharing a (non-null) identifier, the one deduplicate's
\* identifier pass keeps is the one of numerically largest revenue, unknown
\* revenue last, the earliest in input order among equals.  (The record the
\* output carries for an identifier is the one that pass kept.)
C6_KeepsLargestNumericRevenue ==
    (pc = "done" /\ "revenue_amt" \in Range(dedup_in.cols)) =>
        \A k \in 1..Len(enriched_df.rows) :
            ~IsNa(enriched_df.rows[k].ein) =>
                enriched_df.rows[k] = BestCandidate(GroupOf(enriched_df.rows[k].ein))

\* C7: the retained records appear in the output in their input order: the
\* output is the input with rows left out.
C7_InputOrderPreserved ==
    pc = "done" =>
        \E f \in [1..Len(enriched_df.rows) -> 1..Len(dedup_in.rows)] :
            /\ \A i, j \in 1..Len(enriched_df.rows) : i < j => f[i] < f[j]
            /\ \A i \in 1..Len(enriched_df.rows) : enriched_df.rows[i] = dedup_in.rows[f[i]]

\* C10: two input records without identifier and with different normalized
\* names are both in the output.
C10_NullIdentifiersNotMerged ==
    pc = "done" =>
        \A i, j \in 1..Len(dedup_in.rows) :
            (/\ IsNa(dedup_in.rows[i].ein)
             /\ IsNa(dedup_in.rows[j].ein)
             /\ Normalize(dedup_in.rows[i].org) # Normalize(dedup_in.rows[j].org)) =>
                /\ \E k \in 1..Len(enriched_df.rows) : enriched_df.rows[k] = dedup_in.rows[i]
                /\ \E k \in 1..Len(enriched_df.rows) : enriched_df.rows[k] = dedup_in.rows[j]

====
